---------------------------- MODULE Spec2Model ----------------------------
(***************************************************************************)
(* Kestra-workflow utility scripts.                                        *)
(*                                                                         *)
(*   encode-secrets.py           the secret encoder (SpecEnc)              *)
(*   scripts/create-test-data.py the test data uploader (SpecUp) and its   *)
(*                               generate_sample_data (SpecGen)            *)
(*                                                                         *)
(* Text is a sequence of Unicode code points, so that strip(), split(),    *)
(* UTF-8 and base64 are computed the way the code computes them.           *)
(* Metric values are fixed-point numbers in units of 1/10000.              *)
(***************************************************************************)
EXTENDS Integers, Sequences, FiniteSets, TLC

VARIABLES
    fileExists,   \* encoder: whether .env exists
    file,         \* encoder: the text of .env
    out,          \* encoder: what the last run of main printed, line by line
    prevExists,   \* encoder: fileExists when the last run of main started
    prev,         \* encoder: file when the last run of main started
    runs,         \* encoder: number of runs of main so far
    upc,          \* uploader: position of main ("start", "upload", "done", "aborted")
    env_prefix,   \* uploader: S3_PREFIX of the process environment
    s3_prefix,    \* uploader: main's s3_prefix
    end_date,     \* uploader: main's end_date (seconds)
    df,           \* uploader: main's df, the dataset generated before the loop
    attempts,     \* uploader: the upload_to_s3 calls made so far, in order
    results,      \* uploader: what each of those calls returned
    bucket,       \* uploader: the objects of the bucket, key -> body
    gpc,          \* generator: "input" before the call, "done" after it
    start_date,   \* generator: argument start_date (seconds)
    stop_date,    \* generator: argument end_date (seconds)
    num_devices,  \* generator: argument num_devices
    tape,         \* generator: the stream random.random() yields
    data          \* generator: the records returned

encVars == <<fileExists, file, out, prevExists, prev, runs>>
upVars == <<upc, env_prefix, s3_prefix, end_date, df, attempts, results, bucket>>
genVars == <<gpc, start_date, stop_date, num_devices, tape, data>>
vars == <<encVars, upVars, genVars>>

---------------------------------------------------------------------------
(* Bounds *)

\* longest initial .env file, in lines
MaxLines == 2
\* most runs of the encoder on one file
MaxRuns == 2
\* longest range handed to generate_sample_data, in half minutes
MaxHalfMinutes == 4
\* most devices handed to generate_sample_data
MaxDevices == 3
\* the period of the stream of random numbers
TapeLen == 5

---------------------------------------------------------------------------
(* Text helpers *)

LF == <<10>>
Max(a, b) == IF a >= b THEN a ELSE b
Min(a, b) == IF a <= b THEN a ELSE b

\* the first index of code point c in s, 0 when there is none
RECURSIVE IndexFrom(_, _, _)
IndexFrom(s, c, i) ==
    IF i > Len(s) THEN 0
    ELSE IF s[i] = c THEN i
    ELSE IndexFrom(s, c, i + 1)

IndexOf(s, c) == IndexFrom(s, c, 1)

StartsWith(s, p) == Len(s) >= Len(p) /\ SubSeq(s, 1, Len(p)) = p
EndsWith(s, p) == Len(s) >= Len(p) /\ SubSeq(s, Len(s) - Len(p) + 1, Len(s)) = p

\* `p in s` of two Python strings
Contains(s, p) ==
    \E i \in 0..(Len(s) - Len(p)) : SubSeq(s, i + 1, i + Len(p)) = p

\* what str.strip() removes
Whitespace ==
    {9, 10, 11, 12, 13, 28, 29, 30, 31, 32, 133, 160, 5760, 8232, 8233, 8239, 8287, 12288}
    \cup (8192..8202)

RECURSIVE LStrip(_)
LStrip(s) ==
    IF s # <<>> /\ Head(s) \in Whitespace THEN LStrip(Tail(s)) ELSE s

RECURSIVE RStrip(_)
RStrip(s) ==
    IF s # <<>> /\ s[Len(s)] \in Whitespace
    THEN RStrip(SubSeq(s, 1, Len(s) - 1)) ELSE s

Strip(s) == RStrip(LStrip(s))

\* `for line in f`: the lines of a text file, each with its line feed (the
\* text is the file as read in text mode, every line ending a line feed)
RECURSIVE SplitLines(_)
SplitLines(text) ==
    IF text = <<>> THEN <<>>
    ELSE LET i == IndexOf(text, 10) IN
         IF i = 0 THEN <<text>>
         ELSE <<SubSeq(text, 1, i)>> \o SplitLines(SubSeq(text, i + 1, Len(text)))

---------------------------------------------------------------------------
(* encode-secrets.py *)

\* 'AWS_ACCESS_KEY_ID'
AWS_ACCESS_KEY_ID == <<65,87,83,95,65,67,67,69,83,83,95,75,69,89,95,73,68>>
\* 'AWS_SECRET_ACCESS_KEY'
AWS_SECRET_ACCESS_KEY == <<65,87,83,95,83,69,67,82,69,84,95,65,67,67,69,83,83,95,75,69,89>>
\* 'AWS_REGION'
AWS_REGION == <<65,87,83,95,82,69,71,73,79,78>>
\* 'CLICKHOUSE_USER'
CLICKHOUSE_USER == <<67,76,73,67,75,72,79,85,83,69,95,85,83,69,82>>
\* 'CLICKHOUSE_PASSWORD'
CLICKHOUSE_PASSWORD == <<67,76,73,67,75,72,79,85,83,69,95,80,65,83,83,87,79,82,68>>
\* 'ES_USER'
ES_USER == <<69,83,95,85,83,69,82>>
\* 'ES_PASSWORD'
ES_PASSWORD == <<69,83,95,80,65,83,83,87,79,82,68>>

secrets_to_encode ==
    <<AWS_ACCESS_KEY_ID, AWS_SECRET_ACCESS_KEY, AWS_REGION, CLICKHOUSE_USER,
      CLICKHOUSE_PASSWORD, ES_USER, ES_PASSWORD>>

\* '_B64'
B64Suffix == <<95,66,54,52>>
\* ' not found in .env file'
NotFoundSuffix == <<32,110,111,116,32,102,111,117,110,100,32,105,110,32,46,101,110,118,32,102,105,108,101>>
\* 'File .env not found!'
FileNotFoundMsg == <<70,105,108,101,32,46,101,110,118,32,110,111,116,32,102,111,117,110,100,33>>

\* str.encode('utf-8') of one code point
Utf8OfChar(c) ==
    IF c < 128 THEN <<c>>
    ELSE IF c < 2048 THEN <<192 + (c \div 64), 128 + (c % 64)>>
    ELSE IF c < 65536
         THEN <<224 + (c \div 4096), 128 + ((c \div 64) % 64), 128 + (c % 64)>>
    ELSE <<240 + (c \div 262144), 128 + ((c \div 4096) % 64),
           128 + ((c \div 64) % 64), 128 + (c % 64)>>

RECURSIVE Utf8Encode(_)
Utf8Encode(s) ==
    IF s = <<>> THEN <<>> ELSE Utf8OfChar(Head(s)) \o Utf8Encode(Tail(s))

\* 'ABCDEFGHIJKLMNOPQRSTUVWXYZabcdefghijklmnopqrstuvwxyz0123456789+/'
B64Alphabet ==
    <<65,66,67,68,69,70,71,72,73,74,75,76,77,78,79,80,81,82,83,84,85,86,87,88,89,90,
      97,98,99,100,101,102,103,104,105,106,107,108,109,110,111,112,113,114,115,116,
      117,118,119,120,121,122,48,49,50,51,52,53,54,55,56,57,43,47>>

B64Char(n) == B64Alphabet[n + 1]

\* base64.b64encode of a byte string; the result is ASCII, so its
\* decode('utf-8') is the same code points
RECURSIVE B64EncodeBytes(_)
B64EncodeBytes(b) ==
    IF b = <<>> THEN <<>>
    ELSE IF Len(b) = 1
         THEN <<B64Char(b[1] \div 4), B64Char((b[1] % 4) * 16), 61, 61>>
    ELSE IF Len(b) = 2
         THEN <<B64Char(b[1] \div 4), B64Char((b[1] % 4) * 16 + (b[2] \div 16)),
                B64Char((b[2] % 16) * 4), 61>>
    ELSE <<B64Char(b[1] \div 4), B64Char((b[1] % 4) * 16 + (b[2] \div 16)),
           B64Char((b[2] % 16) * 4 + (b[3] \div 64)), B64Char(b[3] % 64)>>
         \o B64EncodeBytes(SubSeq(b, 4, Len(b)))

\* secret.encode('latin-1') in place of 'utf-8'
encode_secret_Latin1(secret) == B64EncodeBytes(secret)

encode_secret(secret) == B64EncodeBytes(Utf8Encode(secret))

\* env_vars[key] = value
DictSet(d, key, value) ==
    [k \in (DOMAIN d) \cup {key} |-> IF k = key THEN value ELSE d[k]]

EmptyDict == [k \in {} |-> <<>>]

\* the body of `for line in f` for one line
ParseLine(env_vars, rawline) ==
    LET line == Strip(rawline)
        i == IndexOf(line, 61)
    IN  IF line # <<>> /\ line[1] # 35 /\ i > 0
        THEN DictSet(env_vars, SubSeq(line, 1, i - 1), SubSeq(line, i + 1, Len(line)))
        ELSE env_vars

RECURSIVE ParseLines(_, _)
ParseLines(env_vars, lines) ==
    IF lines = <<>> THEN env_vars
    ELSE ParseLines(ParseLine(env_vars, Head(lines)), Tail(lines))

\* load_env_file(): none stands for the None it returns, printed for what
\* it prints
load_env_file(exists, text) ==
    IF ~exists
    THEN [none |-> TRUE, env_vars |-> EmptyDict, printed |-> <<FileNotFoundMsg>>]
    ELSE [none |-> FALSE, env_vars |-> ParseLines(EmptyDict, SplitLines(text)),
          printed |-> <<>>]

\* `if not env_vars` that tests nothing
NotEnvVars_Never(r) == FALSE

\* `if not env_vars`: None and the empty dict are both false
NotEnvVars(r) == r.none \/ DOMAIN r.env_vars = {}

RECURSIVE SetToSeq(_)
SetToSeq(S) ==
    IF S = {} THEN <<>>
    ELSE LET x == CHOOSE y \in S : TRUE IN <<x>> \o SetToSeq(S \ {x})

\* a loop over every key of the file instead of the seven names
LoopKeys_AllOfFile(env_vars) == SetToSeq(DOMAIN env_vars)

\* `for secret_name in secrets_to_encode`
LoopKeys(env_vars) == secrets_to_encode

\* the loop of main over names: what it prints and what it appends to .env
RECURSIVE EncodeLoop(_, _)
EncodeLoop(env_vars, names) ==
    IF names = <<>> THEN [printed |-> <<>>, written |-> <<>>]
    ELSE LET secret_name == Head(names)
             rest == EncodeLoop(env_vars, Tail(names))
         IN  IF secret_name \in DOMAIN env_vars
             THEN LET encoded_value == encode_secret(env_vars[secret_name]) IN
                  [printed |-> <<secret_name \o B64Suffix \o <<61>> \o encoded_value>>
                               \o rest.printed,
                   written |-> secret_name \o B64Suffix \o <<61, 39>> \o encoded_value
                               \o <<39, 10>> \o rest.written]
             ELSE [printed |-> <<secret_name \o NotFoundSuffix>> \o rest.printed,
                   written |-> rest.written]

\* main(): what one run prints and appends
main(exists, text) ==
    LET r == load_env_file(exists, text) IN
    IF NotEnvVars(r)
    THEN [printed |-> r.printed, written |-> <<>>, opened |-> FALSE]
    ELSE LET e == EncodeLoop(r.env_vars, LoopKeys(r.env_vars)) IN
         [printed |-> r.printed \o e.printed, written |-> e.written,
          opened |-> e.written # <<>>]

\* 'AWS_REGION=ab'
Line1 == <<65,87,83,95,82,69,71,73,79,78,61,97,98>>
\* 'AWS_REGION=a=b ' (a second '=', a trailing blank)
Line2 == <<65,87,83,95,82,69,71,73,79,78,61,97,61,98,32>>
\* '# ES_USER=x'
Line3 == <<35,32,69,83,95,85,83,69,82,61,120>>
\* 'FOO=bar'
Line4 == <<70,79,79,61,98,97,114>>
\* 'ES_USER=e-acute'
Line5 == <<69,83,95,85,83,69,82,61,233>>
\* "ES_USER_B64='w6k='", as an earlier run wrote it
Line6 == <<69,83,95,85,83,69,82,95,66,54,52,61,39,119,54,107,61,39>>
\* 'garbage'
Line7 == <<103,97,114,98,97,103,101>>
\* '  ES_PASSWORD=p' with a trailing tab
Line8 == <<32,32,69,83,95,80,65,83,83,87,79,82,68,61,112,9>>
\* 'ES_PASSWORD='
Line9 == <<69,83,95,80,65,83,83,87,79,82,68,61>>
\* ''
Line10 == <<>>

LinePool == {Line1, Line2, Line3, Line4, Line5, Line6, Line7, Line8, Line9, Line10}

RECURSIVE JoinLines(_)
JoinLines(ls) ==
    IF ls = <<>> THEN <<>>
    ELSE IF Len(ls) = 1 THEN Head(ls)
    ELSE Head(ls) \o LF \o JoinLines(Tail(ls))

\* the .env files a run may find: up to MaxLines lines, the last one with
\* or without its line feed
EnvFiles ==
    {JoinLines(ls) \o (IF nl THEN LF ELSE <<>>) :
        ls \in UNION {[1..n -> LinePool] : n \in 0..MaxLines}, nl \in BOOLEAN}

UpIdle ==
    /\ upc = "idle" /\ env_prefix = <<>> /\ s3_prefix = <<>> /\ end_date = 0
    /\ df = <<>> /\ attempts = <<>> /\ results = <<>> /\ bucket = EmptyDict

GenIdle ==
    /\ gpc = "idle" /\ start_date = 0 /\ stop_date = 0 /\ num_devices = 0
    /\ tape = <<>> /\ data = <<>>

EncIdle ==
    /\ fileExists = FALSE /\ file = <<>> /\ out = <<>>
    /\ prevExists = FALSE /\ prev = <<>> /\ runs = 0

InitEnc ==
    /\ fileExists \in BOOLEAN
    /\ file \in (IF fileExists THEN EnvFiles ELSE {<<>>})
    /\ out = <<>>
    /\ prevExists = fileExists
    /\ prev = file
    /\ runs = 0
    /\ UpIdle
    /\ GenIdle

\* one run of encode-secrets.py
Main ==
    /\ runs < MaxRuns
    /\ LET m == main(fileExists, file) IN
       /\ out' = m.printed
       /\ file' = file \o m.written
       /\ fileExists' = (fileExists \/ m.opened)
    /\ prevExists' = fileExists
    /\ prev' = file
    /\ runs' = runs + 1
    /\ UNCHANGED <<upVars, genVars>>

NextEnc == Main

SpecEnc == InitEnc /\ [][NextEnc]_vars

---------------------------------------------------------------------------
(* scripts/create-test-data.py: generate_sample_data *)

\* a number n as a fixed-point value, in units of 1/10000
Fixed(n) == n * 10000

\* what random.random() may yield, in units of 1/10000: 0.0, 0.3333, 0.9999
UnitSamples == {0, 3333, 9999}

\* random.uniform(a, b) == a + (b - a) * random.random()
uniform(a, b, u) == Fixed(a) + (b - a) * u

\* round(x, 2): the nearest multiple of 0.01, a tie to the even one
round2(x) ==
    LET q == x \div 100
        r == x % 100
    IN  IF r < 50 THEN q * 100
        ELSE IF r > 50 THEN (q + 1) * 100
        ELSE IF q % 2 = 0 THEN q * 100 ELSE (q + 1) * 100

\* a range that leaves its end out
date_range_OpenEnd(start, end) ==
    IF end <= start THEN <<>>
    ELSE [k \in 1..(((end - start - 1) \div 60) + 1) |-> start + 60 * (k - 1)]

\* pd.date_range(start=start, end=end, freq='1min'), times in seconds
date_range(start, end) ==
    IF end < start THEN <<>>
    ELSE [k \in 1..(((end - start) \div 60) + 1) |-> start + 60 * (k - 1)]

\* timestamp.hour
HourOf(t) == (t \div 3600) % 24

\* timestamp.isoformat() + 'Z': the day, hour, minute and second fields
IsoFormatZ(t) == <<t \div 86400, HourOf(t), (t \div 60) % 60, t % 60, "Z">>

\* f'device_{device_id:03d}'
DeviceIdStr(device_id) ==
    IF device_id < 1000
    THEN <<"device_", device_id \div 100, (device_id \div 10) % 10, device_id % 10>>
    ELSE <<"device_", device_id>>

LocationOf(device_id) ==
    IF device_id = 1 THEN "zone_a"
    ELSE IF device_id = 2 THEN "zone_b"
    ELSE IF device_id = 3 THEN "zone_c"
    ELSE IF device_id = 4 THEN "zone_d"
    ELSE "zone_e"

ZoneOf(device_id) ==
    IF device_id = 1 THEN "production"
    ELSE IF device_id = 2 THEN "testing"
    ELSE IF device_id = 3 THEN "development"
    ELSE IF device_id = 4 THEN "storage"
    ELSE "monitoring"

\* the n-th number of the stream rng, n from 1
Draw(rng, n) == rng[((n - 1) % Len(rng)) + 1]

\* `6 <= timestamp.hour <= 18`
IsDaytime(t) == 6 <= HourOf(t) /\ HourOf(t) <= 18

\* the pressure clamped the way the humidity is
PressureValue_Clamped(pressure) == Max(0, Min(Fixed(100), pressure))

\* 'metric_value': pressure
PressureValue(pressure) == pressure

\* 'metric_value': max(0, temperature)
TemperatureValue(temperature) == Max(0, temperature)

\* 'metric_value': max(0, min(100, humidity))
HumidityValue(humidity) == Max(0, Min(Fixed(100), humidity))

\* the body of the inner loop: the three records of one timestamp and
\* device, with the stream read from its n-th number on
DeviceRecords(t, device_id, rng, n) ==
    LET temperature0 == round2(uniform(20, 30, Draw(rng, n)))
        humidity0 == round2(uniform(40, 60, Draw(rng, n + 1)))
        pressure == round2(uniform(1010, 1020, Draw(rng, n + 2)))
        temperature == IF IsDaytime(t)
                       THEN temperature0 + uniform(2, 5, Draw(rng, n + 3))
                       ELSE temperature0
        humidity == IF IsDaytime(t)
                    THEN humidity0 - uniform(5, 15, Draw(rng, n + 4))
                    ELSE humidity0
        rec(name, value) ==
            [timestamp |-> IsoFormatZ(t), device_id |-> DeviceIdStr(device_id),
             metric_name |-> name, metric_value |-> value,
             location |-> LocationOf(device_id), zone |-> ZoneOf(device_id)]
    IN  [records |-> <<rec("temperature", TemperatureValue(temperature)),
                       rec("humidity", HumidityValue(humidity)),
                       rec("pressure", PressureValue(pressure))>>,
         next |-> IF IsDaytime(t) THEN n + 5 ELSE n + 3]

\* `for device_id in range(1, num_devices + 1)` from device_id on
RECURSIVE DeviceLoop(_, _, _, _, _)
DeviceLoop(t, device_id, ndev, rng, n) ==
    IF device_id > ndev THEN [records |-> <<>>, next |-> n]
    ELSE LET one == DeviceRecords(t, device_id, rng, n)
             rest == DeviceLoop(t, device_id + 1, ndev, rng, one.next)
         IN  [records |-> one.records \o rest.records, next |-> rest.next]

\* `for timestamp in date_range`
RECURSIVE TimestampLoop(_, _, _, _)
TimestampLoop(stamps, ndev, rng, n) ==
    IF stamps = <<>> THEN <<>>
    ELSE LET one == DeviceLoop(Head(stamps), 1, ndev, rng, n) IN
         one.records \o TimestampLoop(Tail(stamps), ndev, rng, one.next)

\* generate_sample_data(start_date, end_date, num_devices), with the stream
\* of random numbers rng
generate_sample_data(start, end, ndev, rng) ==
    TimestampLoop(date_range(start, end), ndev, rng, 1)

\* 00:00:00, 05:59:00, 12:00:00 and 18:59:30 of the first day
StartDates == {0, 21540, 43200, 68370}

InitGen ==
    /\ gpc = "input"
    /\ start_date \in StartDates
    /\ \E k \in (-1)..MaxHalfMinutes : stop_date = start_date + 30 * k
    /\ num_devices \in 0..MaxDevices
    /\ tape = <<>>
    /\ data = <<>>
    /\ EncIdle
    /\ UpIdle

\* one call of generate_sample_data
Generate ==
    /\ gpc = "input"
    /\ \E rng \in [1..TapeLen -> UnitSamples] :
        /\ tape' = rng
        /\ data' = generate_sample_data(start_date, stop_date, num_devices, rng)
    /\ gpc' = "done"
    /\ UNCHANGED <<start_date, stop_date, num_devices, encVars, upVars>>

NextGen == Generate

SpecGen == InitGen /\ [][NextGen]_vars

---------------------------------------------------------------------------
(* scripts/create-test-data.py: upload_to_s3 and main *)

\* 'data/'
DefaultPrefix == <<100,97,116,97,47>>
\* 'sample-metrics.csv'
SampleFile == <<115,97,109,112,108,101,45,109,101,116,114,105,99,115,46,99,115,118>>
\* 'daily-metrics-2024-01-15.csv'
DailyFile == <<100,97,105,108,121,45,109,101,116,114,105,99,115,45,50,48,50,52,45,48,49,45,49,53,46,99,115,118>>
\* 'hourly-metrics-2024-01-15.csv'
HourlyFile == <<104,111,117,114,108,121,45,109,101,116,114,105,99,115,45,50,48,50,52,45,48,49,45,49,53,46,99,115,118>>
\* 'daily'
DailyWord == <<100,97,105,108,121>>
\* 'hourly'
HourlyWord == <<104,111,117,114,108,121>>

\* S3_PREFIX is not set
Unset == <<0>>

\* the values of S3_PREFIX: unset, 'data/', 'data', '', 'daily/',
\* 'hourly-in' and 'test/daily-hourly/'
EnvPrefixes ==
    {Unset, DefaultPrefix, <<100,97,116,97>>, <<>>, <<100,97,105,108,121,47>>,
     <<104,111,117,114,108,121,45,105,110>>,
     <<116,101,115,116,47,100,97,105,108,121,45,104,111,117,114,108,121,47>>}

\* datetime.now(), in seconds: midnight and 10:00 of the ninth day
Nows == {691200, 727200}

\* os.getenv('S3_PREFIX', 'data/') and the slash added to it
NormalizedPrefix(p) ==
    LET q == IF p = Unset THEN DefaultPrefix ELSE p IN
    IF EndsWith(q, <<47>>) THEN q ELSE q \o <<47>>

\* the data frame a call generate_sample_data(start, end, ndev) returns, as
\* its arguments: SpecGen models its records
DataFrame(start, end, ndev) ==
    [start_date |-> start, end_date |-> end, num_devices |-> ndev]

\* test_files, with the prefix
test_files(prefix) == <<prefix \o SampleFile, prefix \o DailyFile, prefix \o HourlyFile>>

\* the data frame the loop of main uploads under key
DatasetFor(key, full, end) ==
    IF Contains(key, DailyWord) THEN DataFrame(end - 86400, end, 3)
    ELSE IF Contains(key, HourlyWord) THEN DataFrame(end - 3600, end, 2)
    ELSE full

\* upload_to_s3 without its try and except
upload_to_s3_NoExcept(fault) ==
    [propagates |-> fault # "none", returns |-> TRUE,
     stored |-> fault \in {"none", "after_store"}]

\* upload_to_s3: fault is where the body of its try raises ("none": nowhere,
\* "before_store": before the bucket holds the object, "after_store":
\* put_object raises although the bucket holds it)
upload_to_s3(fault) ==
    [propagates |-> FALSE, returns |-> (fault = "none"),
     stored |-> fault \in {"none", "after_store"}]

InitUp ==
    /\ upc = "start"
    /\ env_prefix \in EnvPrefixes
    /\ s3_prefix = <<>>
    /\ end_date = 0
    /\ df = <<>>
    /\ attempts = <<>>
    /\ results = <<>>
    /\ bucket = EmptyDict
    /\ EncIdle
    /\ GenIdle

\* main up to its loop
Start ==
    /\ upc = "start"
    /\ s3_prefix' = NormalizedPrefix(env_prefix)
    /\ \E now \in Nows :
        /\ end_date' = now
        /\ df' = DataFrame(now - 7 * 86400, now, 5)
    /\ upc' = "upload"
    /\ UNCHANGED <<env_prefix, attempts, results, bucket, encVars, genVars>>

\* one turn of `for test_file in test_files`
Upload ==
    /\ upc = "upload"
    /\ Len(attempts) < Len(test_files(s3_prefix))
    /\ LET key == test_files(s3_prefix)[Len(attempts) + 1]
           body == DatasetFor(key, df, end_date)
       IN  \E fault \in {"none", "before_store", "after_store"} :
               LET r == upload_to_s3(fault) IN
               /\ attempts' = Append(attempts, [key |-> key, df |-> body, fault |-> fault])
               /\ bucket' = IF r.stored THEN DictSet(bucket, key, body) ELSE bucket
               /\ IF r.propagates
                  THEN upc' = "aborted" /\ results' = results
                  ELSE upc' = upc /\ results' = Append(results, r.returns)
    /\ UNCHANGED <<env_prefix, s3_prefix, end_date, df, encVars, genVars>>

\* main after its loop: the completion summary
Finish ==
    /\ upc = "upload"
    /\ Len(attempts) = Len(test_files(s3_prefix))
    /\ upc' = "done"
    /\ UNCHANGED <<env_prefix, s3_prefix, end_date, df, attempts, results, bucket,
                   encVars, genVars>>

NextUp == Start \/ Upload \/ Finish

SpecUp == InitUp /\ [][NextUp]_vars

\* a run of main goes on until it ends
SpecUpFair == SpecUp /\ WF_vars(NextUp)

---------------------------------------------------------------------------
(* What the claims about the encoder speak of *)

Targets == {secrets_to_encode[i] : i \in 1..Len(secrets_to_encode)}

\* the index of a base64 character in the alphabet, -1 for any other
B64Index(c) ==
    IF \E n \in 0..63 : B64Alphabet[n + 1] = c
    THEN CHOOSE n \in 0..63 : B64Alphabet[n + 1] = c
    ELSE -1

\* standard base64 decoding of a padded text; <<-1>> when it is not one
RECURSIVE B64Decode(_)
B64Decode(e) ==
    IF e = <<>> THEN <<>>
    ELSE IF Len(e) < 4 \/ B64Index(e[1]) < 0 \/ B64Index(e[2]) < 0 THEN <<-1>>
    ELSE LET a == B64Index(e[1])
             b == B64Index(e[2])
             c == B64Index(e[3])
             d == B64Index(e[4])
         IN  IF e[3] = 61 /\ e[4] = 61
             THEN IF Len(e) = 4 /\ b % 16 = 0
                  THEN <<a * 4 + (b \div 16)>> ELSE <<-1>>
             ELSE IF e[4] = 61
             THEN IF Len(e) = 4 /\ c >= 0 /\ c % 4 = 0
                  THEN <<a * 4 + (b \div 16), (b % 16) * 16 + (c \div 4)>>
                  ELSE <<-1>>
             ELSE IF c < 0 \/ d < 0 THEN <<-1>>
             ELSE LET rest == B64Decode(SubSeq(e, 5, Len(e))) IN
                  IF rest = <<-1>> THEN <<-1>>
                  ELSE <<a * 4 + (b \div 16), (b % 16) * 16 + (c \div 4),
                         (c % 4) * 64 + d>> \o rest

\* bytes.decode('utf-8'); <<-1>> when the bytes are not UTF-8
RECURSIVE Utf8Decode(_)
Utf8Decode(b) ==
    IF b = <<>> THEN <<>>
    ELSE LET n == IF b[1] < 128 THEN 1 ELSE IF b[1] < 192 THEN 0
                  ELSE IF b[1] < 224 THEN 2 ELSE IF b[1] < 240 THEN 3 ELSE 4
         IN  IF n = 0 \/ Len(b) < n
                \/ \E i \in 2..n : b[i] < 128 \/ b[i] > 191
             THEN <<-1>>
             ELSE LET c == IF n = 1 THEN b[1]
                           ELSE IF n = 2 THEN (b[1] - 192) * 64 + (b[2] - 128)
                           ELSE IF n = 3
                                THEN (b[1] - 224) * 4096 + (b[2] - 128) * 64 + (b[3] - 128)
                           ELSE (b[1] - 240) * 262144 + (b[2] - 128) * 4096
                                + (b[3] - 128) * 64 + (b[4] - 128)
                      rest == Utf8Decode(SubSeq(b, n + 1, Len(b)))
                  IN  IF rest = <<-1>> THEN <<-1>> ELSE <<c>> \o rest

DecodeSecret(e) ==
    LET b == B64Decode(e) IN IF b = <<-1>> THEN <<-1>> ELSE Utf8Decode(b)

\* a line without its line feed
Chomp(l) == IF l # <<>> /\ l[Len(l)] = 10 THEN SubSeq(l, 1, Len(l) - 1) ELSE l

\* the lines of a text as written, and with the blanks at both ends removed
RawLines(text) == [i \in 1..Len(SplitLines(text)) |-> Chomp(SplitLines(text)[i])]
StrippedLines(text) == [i \in 1..Len(SplitLines(text)) |-> Strip(SplitLines(text)[i])]

\* the lines of ls that read K=...
LinesWithKey(ls, K) == {i \in 1..Len(ls) : StartsWith(ls[i], K \o <<61>>)}

\* the text after the first '=' of the last line of ls with key K
ValueIn(ls, K) ==
    LET last == CHOOSE i \in LinesWithKey(ls, K) :
                    \A j \in LinesWithKey(ls, K) : j <= i
    IN  SubSeq(ls[last], Len(K) + 2, Len(ls[last]))

\* what the last run appended to the file, and its lines
AppendedText == SubSeq(file, Len(prev) + 1, Len(file))
AppendedLines == SplitLines(AppendedText)

\* line reads K_B64='...' and ends the line
IsB64Line(K, line) ==
    /\ StartsWith(line, K \o B64Suffix \o <<61, 39>>)
    /\ EndsWith(line, <<39, 10>>)
    /\ Len(line) >= Len(K) + 8

B64LineValue(K, line) == SubSeq(line, Len(K) + 7, Len(line) - 2)

AppendedFor(K) == {i \in 1..Len(AppendedLines) : IsB64Line(K, AppendedLines[i])}

RanOnFile == runs > 0 /\ prevExists

\* the target keys of the file the last run read
PresentKeys == {K \in Targets : LinesWithKey(StrippedLines(prev), K) # {}}

\* C1 as stated: for every target key K with a line K=VALUE in the file,
\* the run appends a line K_B64='e' and the standard base64 decoding of e is
\* the text after the first '=' of the last line with key K.
C1_Original ==
    RanOnFile =>
        \A K \in Targets :
            LinesWithKey(RawLines(prev), K) # {} =>
                /\ AppendedFor(K) # {}
                /\ \A i \in AppendedFor(K) :
                       DecodeSecret(B64LineValue(K, AppendedLines[i]))
                           = ValueIn(RawLines(prev), K)

\* C1 amended: the same, with every line of the file taken without the
\* blanks at its two ends, as load_env_file strips it before it splits it.
C1_Amended ==
    RanOnFile =>
        \A K \in Targets :
            LinesWithKey(StrippedLines(prev), K) # {} =>
                /\ AppendedFor(K) # {}
                /\ \A i \in AppendedFor(K) :
                       DecodeSecret(B64LineValue(K, AppendedLines[i]))
                           = ValueIn(StrippedLines(prev), K)

\* a run encoded 'a=b', the value of the second of two AWS_REGION lines
C1_Witness ==
    /\ RanOnFile
    /\ Cardinality(LinesWithKey(StrippedLines(prev), AWS_REGION)) = 2
    /\ StrippedLines(prev)[1] = Line1
    /\ ValueIn(StrippedLines(prev), AWS_REGION) = <<97, 61, 98>>
    /\ AppendedFor(AWS_REGION) # {}

\* C2: a run on an existing file adds exactly one line K_B64='...' per target
\* key present: the file is one line longer per encoded key, and each new
\* line of the file is such a line.
C2_Claim ==
    RanOnFile =>
        /\ Len(SplitLines(file)) = Len(SplitLines(prev)) + Cardinality(PresentKeys)
        /\ \A K \in PresentKeys :
               Cardinality({i \in 1..Len(SplitLines(file)) :
                               i > Len(SplitLines(prev))
                               /\ IsB64Line(K, SplitLines(file)[i])}) = 1

\* C3: only target keys are encoded. Every line a run appends is T_B64='...'
\* for a target key T that the file sets, and no line of the file has a key
\* ending in _B64_B64.
C3_OnlyTargets ==
    /\ \A i \in 1..Len(AppendedLines) :
           \E T \in PresentKeys : IsB64Line(T, AppendedLines[i])
    /\ \A i \in 1..Len(StrippedLines(file)) :
           LET l == StrippedLines(file)[i]
               e == IndexOf(l, 61)
           IN  e > 0 => ~EndsWith(SubSeq(l, 1, e - 1), B64Suffix \o B64Suffix)

\* a second run appended to a file that holds a non-target key and a _B64
\* line of the first run
C3_Witness ==
    /\ runs >= 2
    /\ AppendedLines # <<>>
    /\ \E i \in 1..Len(StrippedLines(prev)) : StartsWith(StrippedLines(prev)[i], Line4)
    /\ \E i \in 1..Len(StrippedLines(prev)) :
           \E T \in Targets : IsB64Line(T, SplitLines(prev)[i])

\* C4: on every existing file, each target key the file lacks is reported
\* "not found" and gets no line, and each target key it has gets its line.
C4_Claim ==
    RanOnFile =>
        \A K \in Targets :
            IF K \in PresentKeys
            THEN AppendedFor(K) # {}
            ELSE /\ \E i \in 1..Len(out) : out[i] = K \o NotFoundSuffix
                 /\ AppendedFor(K) = {}

\* C5: a run without a configuration file prints the report and nothing
\* else, and leaves no file behind.
C5_MissingFile ==
    (runs > 0 /\ ~prevExists) =>
        /\ out = <<FileNotFoundMsg>>
        /\ ~fileExists
        /\ file = <<>>

C5_Witness == runs > 0 /\ ~prevExists /\ out # <<>>

---------------------------------------------------------------------------
(* What the claims about the uploader speak of *)

\* the prefix of the object keys: S3_PREFIX, 'data/' when it is not set,
\* with a '/' at its end
ConfiguredPrefix ==
    IF env_prefix = Unset THEN DefaultPrefix
    ELSE IF env_prefix # <<>> /\ env_prefix[Len(env_prefix)] = 47 THEN env_prefix
    ELSE env_prefix \o <<47>>

\* C6: a finished run has uploaded the full dataset (7 days, 5 devices) as
\* prefix+sample-metrics.csv, the daily one (1 day, 3 devices) as
\* prefix+daily-metrics-2024-01-15.csv and the hourly one (1 hour, 2
\* devices) as prefix+hourly-metrics-2024-01-15.csv, whatever the prefix.
C6_Claim ==
    upc = "done" =>
        /\ Len(attempts) = 3
        /\ attempts[1].key = ConfiguredPrefix \o SampleFile
        /\ attempts[1].df = DataFrame(end_date - 604800, end_date, 5)
        /\ attempts[2].key = ConfiguredPrefix \o DailyFile
        /\ attempts[2].df = DataFrame(end_date - 86400, end_date, 3)
        /\ attempts[3].key = ConfiguredPrefix \o HourlyFile
        /\ attempts[3].df = DataFrame(end_date - 3600, end_date, 2)

\* the state part of C7: a run never aborts; the uploads attempted so far
\* are the first files of the list full, daily, hourly, each once and in
\* that order; each attempt returned false exactly when it raised; and a
\* finished run has attempted all three.
C7_Attempts ==
    /\ upc # "aborted"
    /\ Len(attempts) <= 3
    /\ Len(results) = Len(attempts)
    /\ \A i \in 1..Len(attempts) :
           /\ attempts[i].key
                  = ConfiguredPrefix \o <<SampleFile, DailyFile, HourlyFile>>[i]
           /\ results[i] = (attempts[i].fault = "none")
    /\ upc = "done" => Len(attempts) = 3

\* C7: an upload that raises is a false result for that file only, the
\* other files are still attempted, in the order full, daily, hourly, each
\* once, and the run reaches its completion summary.
C7_FailureIsolated == [](C7_Attempts) /\ <>(upc = "done")

\* a run finished after the first upload raised and the other two succeeded
C7_Witness ==
    /\ upc = "done"
    /\ results = <<FALSE, TRUE, TRUE>>
    /\ attempts[1].fault = "before_store"
    /\ DOMAIN bucket = {attempts[2].key, attempts[3].key}

---------------------------------------------------------------------------
(* What the claims about generate_sample_data speak of *)

Generated == gpc = "done"

\* the 1-minute timestamps of the inclusive range [start_date, stop_date]
MinuteStamps == {t \in start_date..stop_date : (t - start_date) % 60 = 0}

MetricNames == {"temperature", "humidity", "pressure"}

\* C8: the records are one per (minute, device, metric) triple of the
\* inclusive range, none twice and none missing; their number is
\* (number of timestamps) x num_devices x 3.
C8_OnePerTriple ==
    Generated =>
        /\ Len(data) = Cardinality(MinuteStamps) * num_devices * 3
        /\ \A t \in MinuteStamps : \A d \in 1..num_devices : \A m \in MetricNames :
               Cardinality({i \in 1..Len(data) :
                               /\ data[i].timestamp = IsoFormatZ(t)
                               /\ data[i].device_id = DeviceIdStr(d)
                               /\ data[i].metric_name = m}) = 1

\* the example: 00:00 to 00:02 with one device gives 9 records
C8_Witness ==
    /\ Generated
    /\ start_date = 0 /\ stop_date = 120 /\ num_devices = 1
    /\ Len(data) = 9

\* C9: every metric_value is a multiple of 0.01, by day and by night.
C9_Claim ==
    Generated => \A i \in 1..Len(data) : data[i].metric_value % 100 = 0

\* the values round(random.uniform(1010, 1020), 2) can take
PressureSamples == {round2(uniform(1010, 1020, u)) : u \in UnitSamples}

\* C10: every humidity is in [0, 100], every temperature is >= 0, and every
\* pressure is the sampled value, in [1010, 1020].
C10_Ranges ==
    Generated =>
        \A i \in 1..Len(data) :
            LET v == data[i].metric_value
                m == data[i].metric_name
            IN  /\ m = "humidity" => 0 <= v /\ v <= Fixed(100)
                /\ m = "temperature" => v >= 0
                /\ m = "pressure" =>
                       /\ v \in PressureSamples
                       /\ Fixed(1010) <= v /\ v <= Fixed(1020)

\* a dataset with a night-time and a daytime timestamp (05:59 and 06:00)
\* whose first daytime humidity is the lowest one, 40 - 14.999
C10_Witness ==
    /\ Generated
    /\ start_date = 21540 /\ num_devices = 1 /\ Len(data) >= 6
    /\ data[2].metric_name = "humidity" /\ data[5].metric_name = "humidity"
    /\ data[4].timestamp[2] = 6
    /\ data[5].metric_value = Fixed(40) - 149990

===========================================================================
